---- MODULE Spec2Model ----
(***************************************************************************)
(* A model of the gocrawler core (crawler/crawler.go, the Worker type and  *)
(* the api handlers): the Crawler's registry, queue, throttle and dispatch *)
(* loop, the fetch goroutines with the goroutines they spawn, the per      *)
(* Worker quiescence detector, Close, and the three HTTP handlers.         *)
(***************************************************************************)
EXTENDS Integers, Sequences, FiniteSets, TLC

(***************************************************************************)
(* Bounds of the model.  QueueCap stands for the queue channel's buffer    *)
(* (100 in New) and ThrottleCap for DefaultThrottlingRate (20): both are   *)
(* scaled down so that a full queue and a full throttle are reached.       *)
(***************************************************************************)
QueueCap == 2
ThrottleCap == 2
MaxCrawls == 2
MaxQueries == 1

DefaultMaxCrawlDepth == 5

(***************************************************************************)
(* net/url on the strings the model uses.  A URL is a record; the parse    *)
(* of a malformed string is NoURL, which also stands for a nil *url.URL.   *)
(***************************************************************************)
NoURL == [ok |-> FALSE, scheme |-> "", host |-> "", path |-> ""]

MkURL(s, h, p) == [ok |-> TRUE, scheme |-> s, host |-> h, path |-> p]

\* url.Parse: the scheme is lower-cased, host and path are kept as written,
\* "scheme:/path" has an empty host, an invalid escape is an error.
URLParse(s) ==
  CASE s = "http://a.com"   -> MkURL("http", "a.com", "")
    [] s = "HTTP://a.com"   -> MkURL("http", "a.com", "")
    [] s = "http://a.com/a" -> MkURL("http", "a.com", "/a")
    [] s = "http://a.com/c" -> MkURL("http", "a.com", "/c")
    [] s = "http://a.com/r" -> MkURL("http", "a.com", "/r")
    [] s = "http://a.com/i" -> MkURL("http", "a.com", "/i")
    [] s = "http://a.com/"  -> MkURL("http", "a.com", "/")
    [] s = "http://a.com/d2" -> MkURL("http", "a.com", "/d2")
    [] s = "http://a.com/d3" -> MkURL("http", "a.com", "/d3")
    [] s = "http://a.com/d4" -> MkURL("http", "a.com", "/d4")
    [] s = "http://a.com/d5" -> MkURL("http", "a.com", "/d5")
    [] s = "http://a.com/d6" -> MkURL("http", "a.com", "/d6")
    [] s = "http://a.com/e7" -> MkURL("http", "a.com", "/e7")
    [] s = "http://a.com/f7" -> MkURL("http", "a.com", "/f7")
    [] s = "http://a.com/e8" -> MkURL("http", "a.com", "/e8")
    [] s = "http://a.com/f8" -> MkURL("http", "a.com", "/f8")
    [] s = "http://b.com"   -> MkURL("http", "b.com", "")
    [] s = "http://b.com/"  -> MkURL("http", "b.com", "/")
    [] s = "http://c.com"   -> MkURL("http", "c.com", "")
    [] s = "http://d.com"   -> MkURL("http", "d.com", "")
    [] s = "htt://a.com"    -> MkURL("htt", "a.com", "")
    [] s = "http:/x"        -> MkURL("http", "", "/x")
    [] s = "http:///x"      -> MkURL("http", "", "/x")
    [] s = "mailto:x"       -> MkURL("mailto", "", "")
    [] s = "/a"             -> MkURL("", "", "/a")
    [] s = "/c"             -> MkURL("", "", "/c")
    [] s = "/r"             -> MkURL("", "", "/r")
    [] s = "/i"             -> MkURL("", "", "/i")
    [] s = "/"              -> MkURL("", "", "/")
    [] s \in {"/d2", "/d3", "/d4", "/d5", "/d6", "/e7", "/f7", "/e8", "/f8"}
                            -> MkURL("", "", s)
    [] OTHER                -> NoURL

\* The strings URL.String() produces: one per URL.
CanonicalStrings ==
  { "http://a.com", "http://a.com/a", "http://a.com/c", "http://a.com/r",
    "http://a.com/i", "http://a.com/", "http://b.com", "http://b.com/",
    "http://c.com", "http://d.com", "htt://a.com", "http:///x",
    "http://a.com/d2", "http://a.com/d3", "http://a.com/d4", "http://a.com/d5",
    "http://a.com/d6", "http://a.com/e7", "http://a.com/f7", "http://a.com/e8",
    "http://a.com/f8" }

\* URL.String(): scheme "://" host path.
URLString(u) == CHOOSE s \in CanonicalStrings : URLParse(s) = u

\* URL.ResolveReference for references that are absolute URLs, net paths or
\* absolute paths: a reference with a scheme or a host keeps its own host.
ResolveReference(base, ref) ==
  IF ref.scheme # "" \/ ref.host # ""
  THEN MkURL(IF ref.scheme = "" THEN base.scheme ELSE ref.scheme, ref.host, ref.path)
  ELSE MkURL(base.scheme, base.host, IF ref.path = "" THEN base.path ELSE ref.path)

normaliseURL(href, base) ==
  LET uri == URLParse(href) IN
  IF ~uri.ok THEN NoURL
  ELSE IF uri.host # "" /\ uri.host # base.host THEN NoURL
  ELSE LET abs == ResolveReference(base, uri) IN
       IF abs.scheme # "http" /\ abs.scheme # "https" THEN NoURL ELSE abs

(***************************************************************************)
(* The network.  robots.txt: the transport refuses a scheme other than     *)
(* http(s); c.com serves a robots.txt that does not parse; d.com one in    *)
(* which no group is found for the user agent; a.com disallows /r.         *)
(***************************************************************************)
RobotsGet(u) ==
  IF u.scheme \notin {"http", "https"} THEN "transport"
  ELSE IF u.host = "c.com" THEN "parse"
  ELSE IF u.host = "d.com" THEN "nogroup"
  ELSE "ok"

\* The robots group of a host, as the set of paths it disallows.
FindGroup(u) == IF u.host = "a.com" THEN {"/r"} ELSE {}

\* Group.Test
AgentTest(agent, path) == path \notin agent

\* The sites a run may crawl; Init picks one.  In "again" the seed and its
\* child /c link to the path robots.txt disallows; in "late" they link to one
\* page, which the crawl's depth admits only as the seed's child.  A fifth site, "fork", is a chain of six
\* pages whose last page links to two pages with one link each.
Webs == {"small", "wide", "deep", "again", "late"}

\* The hrefs collectlinks.All finds in the page at URL string s.
PageLinks(w, s) ==
  CASE w = "small" /\ s = "http://a.com"   -> {"/a"}
    [] w = "wide"  /\ s = "http://a.com"   -> {"/a", "/r", "http:/x", "http://b.com/", "mailto:x", "%zz"}
    [] w = "again" /\ s = "http://a.com"   -> {"/c", "/r"}
    [] w = "again" /\ s = "http://a.com/c" -> {"/r"}
    [] w = "late"  /\ s = "http://a.com"   -> {"/c", "/i"}
    [] w = "late"  /\ s = "http://a.com/c" -> {"/i"}
    [] w = "deep"  /\ s = "http://a.com"   -> {"/a"}
    [] w = "deep"  /\ s = "http://a.com/a" -> {"/c"}
    [] w = "deep"  /\ s = "http://a.com/c" -> {"/i"}
    [] w = "deep"  /\ s = "http://a.com/i" -> {"/a"}
    [] w = "fork"  /\ s = "http://a.com"    -> {"/d2"}
    [] w = "fork"  /\ s = "http://a.com/d2" -> {"/d3"}
    [] w = "fork"  /\ s = "http://a.com/d3" -> {"/d4"}
    [] w = "fork"  /\ s = "http://a.com/d4" -> {"/d5"}
    [] w = "fork"  /\ s = "http://a.com/d5" -> {"/d6"}
    [] w = "fork"  /\ s = "http://a.com/d6" -> {"/e7", "/f7"}
    [] w = "fork"  /\ s = "http://a.com/e7" -> {"/e8"}
    [] w = "fork"  /\ s = "http://a.com/f7" -> {"/f8"}
    [] OTHER -> {}

\* The HEAD request of isMIMETypeHTML: "html", "other" (another media type)
\* or "err" (transport error: a URL without host has none to connect to).
PageHead(w, s) ==
  IF URLParse(s).host = "" THEN "err"
  ELSE IF w = "wide" /\ s = "http://a.com/a" THEN "other"
  ELSE "html"

\* The GET request of fetch: "ok" or "err".
PageGet(w, s) == IF s = "http://b.com" THEN "err" ELSE "ok"

\* What the clients of a run post: (domain, depth) pairs.
CrawlInputs(w) ==
  CASE w = "small" -> { <<"http://a.com", 1>>, <<"http://a.com", 0>>, <<"HTTP://a.com", 2>>,
                        <<"http://a.com", -1>>, <<"http://b.com", 0>>, <<"htt://a.com", 1>>,
                        <<"http://c.com", 1>>, <<"http://d.com", 1>>, <<"%zz", 1>> }
    [] w = "wide"  -> { <<"http://a.com", 2>> }
    [] w = "deep"  -> { <<"http://a.com", 0>> }
    [] w = "again" -> { <<"http://a.com", 3>> }
    [] w = "late"  -> { <<"http://a.com", 2>> }
    [] w = "fork"  -> { <<"http://a.com", 7>> }

\* Whether the run's operator shuts the Crawler down.
ClientsClose(w) == w \in {"small", "wide"}

\* The number of Crawl calls the clients of a run make.
CrawlBudget(w) == IF w = "small" THEN MaxCrawls ELSE 1

\* The :domain parameters the clients query, already path-unescaped.
QueryDomains(w) ==
  IF w = "small" THEN {"http://a.com", "HTTP://a.com", "http://d.com"} ELSE {}

(***************************************************************************)
(* State                                                                   *)
(***************************************************************************)
VARIABLES
  web,        \* the site being crawled (fixed by Init)
  workers,    \* Crawler.workers: URL string -> Worker
  q,          \* Crawler.q: [closed, ch, chClosed]
  throttle,   \* number of values buffered in Crawler.throttle
  loopPc,     \* Crawler.loop: "running", "reply" (sending on errc), "done"
  closePc,    \* Crawler.Close: "idle", "waiting", "recv", "returned"
  closeSeen,  \* the workers Close's range has waited for
  crawl,      \* the Crawl call holding the Crawler mutex, <<>> if none
  fetches,    \* the fetch goroutines spawned by enqueue, finished ones kept
  enqs,       \* the child-enqueue goroutines of fetch
  appends,    \* the append goroutines of fetch
  detectors,  \* the workers whose quiescence detector goroutine runs
  resp,       \* the last answer of an HTTP handler
  nCrawls,    \* Crawl calls made
  nQueries,   \* tree and status queries made
  panicked,   \* a goroutine panicked: the process is gone
  heap,       \* the backing arrays of the Parent slices: array -> strings
  robotLog    \* the URL strings enqueue logged as refused by robots.txt

vars == << web, workers, q, throttle, loopPc, closePc, closeSeen, crawl, fetches,
           enqs, appends, detectors, resp, nCrawls, nQueries, panicked, heap,
           robotLog >>

StatusInitialised == "initialised"
StatusFetchingInProgress == "in-progress"
StatusFetchingComplete == "complete"
StatusFetchingError == "error"

\* Resource, without the fields fetch fills for the JSON (Title, status code).
\* Parent is a slice: a backing array of heap, a length and a capacity.
Resource(u, root, parent, depth) ==
  [url |-> u, root |-> root, parent |-> parent, depth |-> depth]

\* The nil slice of the seed Resource's Parent.
NilSlice == [arr |-> <<>>, len |-> 0, cap |-> 0]

\* The strings of res.Parent, read from its backing array.
ParentOf(res) ==
  IF res.parent.len = 0 THEN <<>> ELSE SubSeq(heap[res.parent.arr], 1, res.parent.len)

\* The capacity append allocates for a slice of strings that is full: one
\* for the nil slice, then twice the old capacity.
GrowCap(cap) == IF cap = 0 THEN 1 ELSE 2 * cap

\* append(s, v), the slice: the backing array of s is kept while it has
\* room, otherwise the array id is allocated.
AppendSlice(s, id) ==
  IF s.len < s.cap THEN [s EXCEPT !.len = @ + 1]
  ELSE [arr |-> id, len |-> s.len + 1, cap |-> GrowCap(s.cap)]

\* append(s, v), the heap: v is written after the strings of s.
AppendHeap(s, v, id) ==
  LET t == AppendSlice(s, id)
      old == IF s.len = 0 THEN <<>> ELSE SubSeq(heap[s.arr], 1, s.len)
  IN IF t.arr = s.arr
     THEN [heap EXCEPT ![s.arr][s.len + 1] = v]
     ELSE [a \in DOMAIN heap \cup {id} |->
             IF a = id THEN [i \in 1..t.cap |-> IF i <= s.len THEN old[i]
                                                ELSE IF i = t.len THEN v ELSE ""]
             ELSE heap[a]]

\* An answer of the HTTP layer: the handler, its argument, the status code,
\* Crawl's error, and the body's depth, status and tree.
Resp(op, arg, code, err, depth, status, body) ==
  [op |-> op, arg |-> arg, code |-> code, err |-> err, depth |-> depth,
   status |-> status, body |-> body]

NoResp == Resp("none", "", 0, "", 0, "", <<>>)

\* New
New ==
  /\ workers = <<>>
  /\ q = [closed |-> FALSE, ch |-> <<>>, chClosed |-> FALSE]
  /\ throttle = 0
  /\ loopPc = "running"
  /\ closePc = "idle"
  /\ closeSeen = {}
  /\ crawl = <<>>
  /\ fetches = {}
  /\ enqs = {}
  /\ appends = {}
  /\ detectors = {}
  /\ resp = NoResp
  /\ nCrawls = 0
  /\ nQueries = 0
  /\ panicked = FALSE
  /\ heap = <<>>
  /\ robotLog = <<>>

Init == web \in Webs /\ New

(***************************************************************************)
(* Crawl and CreateDomainHandler                                           *)
(***************************************************************************)
\* Crawl without the lookup of the registry.
CrawlError_NoLookup(rawurl) ==
  LET u == URLParse(rawurl) IN
  IF ~u.ok THEN "parse"
  ELSE IF RobotsGet(u) = "transport" THEN "transport"
  ELSE IF RobotsGet(u) = "parse" THEN "robots"
  ELSE IF RobotsGet(u) = "nogroup" THEN "nogroup"
  ELSE "nil"

\* The error Crawl returns for rawurl, "nil" for none; "nogroup" is the nil
\* error of the return taken when FindGroup yields no group.
CrawlError(rawurl) ==
  LET u == URLParse(rawurl) IN
  IF ~u.ok THEN "parse"
  ELSE IF URLString(u) \in DOMAIN workers THEN "registered"
  ELSE IF RobotsGet(u) = "transport" THEN "transport"
  ELSE IF RobotsGet(u) = "parse" THEN "robots"
  ELSE IF RobotsGet(u) = "nogroup" THEN "nogroup"
  ELSE "nil"

\* Crawl registering the Worker before it fetches robots.txt.
CrawlRegisters_Early(err) == err \in {"nil", "transport", "robots", "nogroup"}

\* Whether Crawl reaches the registration of the Worker.
CrawlRegisters(err) == err = "nil"

\* Crawl storing the depth as it was passed.
CrawlDepthOf_Keep(depth) == depth

\* depth == 0 is replaced by the default.
CrawlDepthOf(depth) == IF depth = 0 THEN DefaultMaxCrawlDepth ELSE depth

NewWorker(u, depth) ==
  [seed |-> u, agent |-> FindGroup(u), crawlDepth |-> CrawlDepthOf(depth),
   status |-> StatusInitialised, tracker |-> {}, Tree |-> <<>>,
   Nodes |-> <<>>, LastUpdated |-> "zero", wg |-> 0]

\* CreateDomainHandler's status code for Crawl's error.
CreateDomainCode(err) == IF err \in {"nil", "nogroup"} THEN 202 ELSE 400

\* c.workers = map[string]*Worker{key: worker}
Register_Fresh(key, worker) == [k \in {key} |-> worker]

\* c.workers[key] = worker
Register(key, worker) ==
  [k \in DOMAIN workers \cup {key} |-> IF k = key THEN worker ELSE workers[k]]

\* Crawl up to the send of the seed: lock, parse, lookup, robots.txt,
\* registration and the start of the detector; or the return of an error.
\* The registry is written here under the Crawler mutex and read without it
\* by loop, fetch, append and the handlers: each read and the write are
\* taken as atomic.
CrawlBegin(rawurl, depth) ==
  /\ ~panicked
  /\ crawl = <<>>
  /\ nCrawls < CrawlBudget(web)
  /\ nCrawls' = nCrawls + 1
  /\ LET err == CrawlError(rawurl)
         u == URLParse(rawurl)
     IN /\ IF CrawlRegisters(err)
           THEN /\ workers' = Register(URLString(u), NewWorker(u, depth))
                /\ detectors' = detectors \cup {URLString(u)}
           ELSE UNCHANGED << workers, detectors >>
        /\ IF err = "nil"
           THEN /\ crawl' = << [rawurl |-> rawurl, depth |-> depth, u |-> u] >>
                /\ resp' = Resp("crawl", rawurl, 0, "pending", depth, "", <<>>)
           ELSE /\ crawl' = <<>>
                /\ resp' = Resp("crawl", rawurl, CreateDomainCode(err), err, depth,
                                IF err = "nogroup" THEN StatusInitialised ELSE "", <<>>)
  /\ UNCHANGED << web, heap, robotLog, q, throttle, loopPc, closePc, closeSeen, fetches, enqs,
                  appends, nQueries, panicked >>

\* The send of the seed on the queue (it blocks while the buffer is full and
\* panics once the channel is closed), and Crawl's return.
CrawlSeed ==
  /\ ~panicked
  /\ crawl # <<>>
  /\ LET c == crawl[1] IN
     IF q.chClosed
     THEN /\ resp' = Resp("crawl", c.rawurl, 500, "panic", c.depth, "", <<>>)
          /\ q' = q
     ELSE /\ Len(q.ch) < QueueCap
          /\ q' = [q EXCEPT !.ch = Append(@, Resource(c.u, c.u, NilSlice, 1))]
          /\ resp' = Resp("crawl", c.rawurl, CreateDomainCode("nil"), "nil", c.depth,
                          StatusInitialised, <<>>)
  /\ crawl' = <<>>
  /\ UNCHANGED << web, heap, robotLog, workers, throttle, loopPc, closePc, closeSeen, fetches, enqs,
                  appends, detectors, nCrawls, nQueries, panicked >>

(***************************************************************************)
(* GetDomainHandler and GetDomainStatusHandler                             *)
(***************************************************************************)
\* Crawler.Worker: the lookup of the registry.
HasWorker(domain) == domain \in DOMAIN workers

\* GetDomainHandler without the test of the status.
GetDomainCode_NoStatus(domain) == IF ~HasWorker(domain) THEN 404 ELSE 200

GetDomainCode(domain) ==
  IF ~HasWorker(domain) THEN 404
  ELSE IF workers[domain].status # StatusFetchingComplete THEN 204
  ELSE 200

GetDomainHandler(domain) ==
  /\ ~panicked
  /\ nQueries < MaxQueries
  /\ nQueries' = nQueries + 1
  /\ resp' = Resp("tree", domain, GetDomainCode(domain), "", 0, "",
                  IF GetDomainCode(domain) = 200 THEN workers[domain].Tree ELSE <<>>)
  /\ UNCHANGED << web, heap, robotLog, workers, q, throttle, loopPc, closePc, closeSeen, crawl, fetches,
                  enqs, appends, detectors, nCrawls, panicked >>

GetDomainStatusHandler(domain) ==
  /\ ~panicked
  /\ nQueries < MaxQueries
  /\ nQueries' = nQueries + 1
  /\ resp' = IF ~HasWorker(domain)
             THEN Resp("status", domain, 404, "", 0, "", <<>>)
             ELSE Resp("status", domain, 200, "", workers[domain].crawlDepth,
                       workers[domain].status, <<>>)
  /\ UNCHANGED << web, heap, robotLog, workers, q, throttle, loopPc, closePc, closeSeen, crawl, fetches,
                  enqs, appends, detectors, nCrawls, panicked >>

(***************************************************************************)
(* The dispatch loop and admission (enqueue)                               *)
(***************************************************************************)
\* Worker.visited that finds no URL recorded.
Visited_Never(tracker, uri) == FALSE

\* Worker.visited: whether uri was in the tracker, and the tracker after.
Visited(tracker, uri) == uri \in tracker

\* visited without the insertion.
TrackerAfter_NoInsert(tracker, uri) == tracker

TrackerAfter(tracker, uri) == tracker \cup {uri}

\* enqueue without the depth gate.
DepthGate_Off(res, worker) == FALSE

\* The depth gate: the Resource is dropped.
DepthGate(res, worker) == res.depth > worker.crawlDepth

\* enqueue without the robot gate.
RobotGate_Off(res, worker) == FALSE

\* The robot gate: the Resource is dropped.
RobotGate(res, worker) == ~AgentTest(worker.agent, res.url.path)

\* The fetch goroutine enqueue spawns.
\* A closed flag that is never seen set.
QueueClosed_Never == FALSE

\* if c.q.closed
QueueClosed == q.closed

Fetch(res) == [res |-> res, pc |-> "acquire", sent |-> <<>>]

\* enqueue: workers, fetches and the log after the admission of res.  The
\* tracker is tested and written first, then the depth gate is applied, then
\* the robot gate, which logs the URL it refuses.
enqueue(res) ==
  LET k == URLString(res.root) IN
  IF QueueClosed \/ ~res.url.ok \/ k \notin DOMAIN workers
  THEN UNCHANGED << workers, fetches, robotLog >>
  ELSE LET worker == workers[k]
           uri == URLString(res.url)
       IN IF Visited(worker.tracker, uri)
          THEN UNCHANGED << workers, fetches, robotLog >>
          ELSE IF DepthGate(res, worker) \/ RobotGate(res, worker)
          THEN /\ workers' = [workers EXCEPT ![k].tracker = TrackerAfter(@, uri)]
               /\ fetches' = fetches
               /\ robotLog' = IF DepthGate(res, worker) THEN robotLog
                              ELSE Append(robotLog, uri)
          ELSE /\ robotLog' = robotLog
               /\ workers' = [workers EXCEPT ![k].tracker = TrackerAfter(@, uri),
                                             ![k].wg = @ + 1]
               /\ fetches' = fetches \cup {Fetch(res)}

\* loop, the receive on the queue: one Resource is taken and enqueued.
LoopRecv ==
  /\ ~panicked
  /\ loopPc = "running"
  /\ q.ch # <<>>
  /\ q' = [q EXCEPT !.ch = Tail(@)]
  /\ enqueue(Head(q.ch))
  /\ UNCHANGED << web, heap, throttle, loopPc, closePc, closeSeen, crawl, enqs, appends,
                  detectors, resp, nCrawls, nQueries, panicked >>

(***************************************************************************)
(* fetch                                                                   *)
(***************************************************************************)
\* A fetch that returns without its deferred receive from the throttle.
SetPc_NoRelease(f, pc) ==
  (fetches \ {f}) \cup {[f EXCEPT !.pc = IF pc = "release" THEN "wgdone" ELSE pc]}

SetPc(f, pc) == (fetches \ {f}) \cup {[f EXCEPT !.pc = pc]}

\* The fetch goroutine f has made the request method and goes on at pc.
Request(f, method, pc) ==
  (fetches \ {f}) \cup {[f EXCEPT !.pc = pc, !.sent = Append(@, method)]}

WorkerOf(res) == URLString(res.root)

\* A throttle that never blocks.
ThrottleFree_Always == TRUE

\* The throttle has room for one more value.
ThrottleFree == throttle < ThrottleCap

\* c.throttle <- true
FetchAcquire(f) ==
  /\ ~panicked
  /\ f.pc = "acquire"
  /\ ThrottleFree
  /\ throttle' = throttle + 1
  /\ fetches' = SetPc(f, "check")
  /\ UNCHANGED << web, heap, robotLog, workers, q, loopPc, closePc, closeSeen, crawl, enqs, appends,
                  detectors, resp, nCrawls, nQueries, panicked >>

\* A failed request that records the error status in the Worker.
ReturnOnError_SetsError(worker) == [worker EXCEPT !.status = StatusFetchingError]

\* if err != nil || !isHTML { return } and if err != nil { return }: the
\* Worker after a request of one of its fetches has failed.
ReturnOnError(worker) == worker

\* The closed flag is read; if the queue is open the HEAD request is made.
FetchCheck(f) ==
  /\ ~panicked
  /\ f.pc = "check"
  /\ fetches' = IF QueueClosed THEN SetPc(f, "release")
                 ELSE Request(f, "HEAD",
                              IF PageHead(web, URLString(f.res.url)) = "html"
                              THEN "status" ELSE "release")
  /\ workers' = IF QueueClosed \/ PageHead(web, URLString(f.res.url)) = "html"
                 THEN workers
                 ELSE [workers EXCEPT ![WorkerOf(f.res)] = ReturnOnError(@)]
  /\ UNCHANGED << web, heap, robotLog, q, throttle, loopPc, closePc, closeSeen, crawl, enqs,
                  appends, detectors, resp, nCrawls, nQueries, panicked >>

\* if worker.status != StatusFetchingInProgress { worker.status = ... }
FetchStatus(f) ==
  /\ ~panicked
  /\ f.pc = "status"
  /\ workers' = [workers EXCEPT ![WorkerOf(f.res)].status = StatusFetchingInProgress]
  /\ fetches' = SetPc(f, "get")
  /\ UNCHANGED << web, heap, robotLog, q, throttle, loopPc, closePc, closeSeen, crawl, enqs, appends,
                  detectors, resp, nCrawls, nQueries, panicked >>

\* The array a child-enqueue goroutine allocates when append has to.
ArrayId(res, absolute) == << URLString(res.root), URLString(res.url), URLString(absolute) >>

\* The child Resource built for the link absolute of the page res.
Child(res, absolute) ==
  Resource(absolute, res.root, AppendSlice(res.parent, ArrayId(res, absolute)),
           res.depth + 1)

\* The child-enqueue goroutines fetch spawns for the links of the page res.
Children(res) ==
  { [parent |-> res, absolute |-> normaliseURL(href, res.url), pc |-> "check"] :
      href \in { h \in PageLinks(web, URLString(res.url)) : normaliseURL(h, res.url).ok } }

\* The GET request; on success the append goroutine and the child-enqueue
\* goroutines are spawned.
FetchGet(f) ==
  /\ ~panicked
  /\ f.pc = "get"
  /\ fetches' = Request(f, "GET", "release")
  /\ IF PageGet(web, URLString(f.res.url)) = "ok"
     THEN /\ appends' = appends \cup {[res |-> f.res, pc |-> "check"]}
          /\ enqs' = enqs \cup Children(f.res)
          /\ workers' = workers
     ELSE /\ workers' = [workers EXCEPT ![WorkerOf(f.res)] = ReturnOnError(@)]
          /\ UNCHANGED << appends, enqs >>
  /\ UNCHANGED << web, heap, robotLog, q, throttle, loopPc, closePc, closeSeen, crawl,
                  detectors, resp, nCrawls, nQueries, panicked >>

\* defer func() { <-c.throttle }()
FetchRelease(f) ==
  /\ ~panicked
  /\ f.pc = "release"
  /\ throttle' = throttle - 1
  /\ fetches' = SetPc(f, "wgdone")
  /\ UNCHANGED << web, heap, robotLog, workers, q, loopPc, closePc, closeSeen, crawl, enqs, appends,
                  detectors, resp, nCrawls, nQueries, panicked >>

\* defer worker.Done()
FetchDone(f) ==
  /\ ~panicked
  /\ f.pc = "wgdone"
  /\ workers' = [workers EXCEPT ![WorkerOf(f.res)].wg = @ - 1]
  /\ fetches' = SetPc(f, "done")
  /\ UNCHANGED << web, heap, robotLog, q, throttle, loopPc, closePc, closeSeen, crawl, enqs, appends,
                  detectors, resp, nCrawls, nQueries, panicked >>

(***************************************************************************)
(* The child-enqueue goroutines of fetch                                   *)
(***************************************************************************)
\* if c.q.closed { return }; otherwise the operand of the send is evaluated:
\* append writes the parent's URL string and the child Resource is built.
EnqCheck(e) ==
  /\ ~panicked
  /\ e.pc = "check"
  /\ IF QueueClosed
     THEN /\ enqs' = enqs \ {e}
          /\ heap' = heap
     ELSE /\ enqs' = (enqs \ {e}) \cup {[e EXCEPT !.pc = "send"]}
          /\ heap' = AppendHeap(e.parent.parent, URLString(e.parent.url),
                                ArrayId(e.parent, e.absolute))
  /\ UNCHANGED << web, robotLog, workers, q, throttle, loopPc, closePc, closeSeen, crawl,
                  fetches, appends, detectors, resp, nCrawls, nQueries, panicked >>

\* c.q.ch <- &Resource{...}: blocks while the buffer is full, panics once the
\* channel is closed.
EnqSend(e) ==
  /\ ~panicked
  /\ e.pc = "send"
  /\ IF q.chClosed
     THEN /\ panicked' = TRUE
          /\ enqs' = (enqs \ {e}) \cup {[e EXCEPT !.pc = "panic"]}
          /\ q' = q
     ELSE /\ Len(q.ch) < QueueCap
          /\ q' = [q EXCEPT !.ch = Append(@, Child(e.parent, e.absolute))]
          /\ enqs' = enqs \ {e}
          /\ panicked' = panicked
  /\ UNCHANGED << web, heap, robotLog, workers, throttle, loopPc, closePc, closeSeen, crawl, fetches,
                  appends, detectors, resp, nCrawls, nQueries >>

(***************************************************************************)
(* append and addNode.  The Nodes of the Resources of a Worker's tree are  *)
(* kept in the Worker, as a function from the Resource to its Nodes.       *)
(***************************************************************************)
NodesOf(nodes, r) == IF r \in DOMAIN nodes THEN nodes[r] ELSE <<>>

WithChild(nodes, r, child) ==
  [x \in DOMAIN nodes \cup {r} |-> IF x = r THEN Append(NodesOf(nodes, r), child)
                                   ELSE nodes[x]]

\* The first Node of parent, in the order of child.Parent[1:] and then of
\* parent.Nodes, whose URL string is an ancestor of child; <<>> if none.
FirstMatch(nodes, parent, child) ==
  LET ns == NodesOf(nodes, parent)
      hits == { ij \in (2..child.parent.len) \X (1..Len(ns)) :
                  URLString(ns[ij[2]].url) = ParentOf(child)[ij[1]] }
  IN IF hits = {} THEN <<>>
     ELSE LET best == CHOOSE ij \in hits :
                        \A o \in hits : ij[1] < o[1] \/ (ij[1] = o[1] /\ ij[2] <= o[2])
          IN << ns[best[2]] >>

\* addNode: the Resource child is appended to, <<>> if it is dropped.
RECURSIVE addNode(_, _, _)
addNode(nodes, parent, child) ==
  IF ParentOf(child)[child.parent.len] = URLString(parent.url) THEN << parent >>
  ELSE LET m == FirstMatch(nodes, parent, child) IN
       IF m = <<>> THEN <<>> ELSE addNode(nodes, m[1], child)

\* append reads worker.Tree.
AppendCheck(a) ==
  /\ ~panicked
  /\ a.pc = "check"
  /\ appends' = (appends \ {a}) \cup
                 {[a EXCEPT !.pc = IF workers[WorkerOf(a.res)].Tree = <<>> THEN "set"
                                    ELSE "insert"]}
  /\ UNCHANGED << web, heap, robotLog, workers, q, throttle, loopPc, closePc, closeSeen, crawl, fetches,
                  enqs, detectors, resp, nCrawls, nQueries, panicked >>

\* worker.Tree = resource
AppendSet(a) ==
  /\ ~panicked
  /\ a.pc = "set"
  /\ workers' = [workers EXCEPT ![WorkerOf(a.res)].Tree = << a.res >>]
  /\ appends' = appends \ {a}
  /\ UNCHANGED << web, heap, robotLog, q, throttle, loopPc, closePc, closeSeen, crawl, fetches, enqs,
                  detectors, resp, nCrawls, nQueries, panicked >>

\* The insertion under the Tree's mutex.  addNode indexes child.Parent at
\* len - 1: a Resource with an empty Parent panics there.
AppendInsert(a) ==
  /\ ~panicked
  /\ a.pc = "insert"
  /\ appends' = appends \ {a}
  /\ LET k == WorkerOf(a.res)
         worker == workers[k]
         root == worker.Tree[1]
         target == IF a.res.parent.len = 1 /\ ParentOf(a.res)[1] = URLString(root.url)
                   THEN << root >>
                   ELSE IF a.res.parent.len = 0 THEN <<>>
                   ELSE addNode(worker.Nodes, root, a.res)
     IN /\ panicked' = (a.res.parent.len = 0)
        /\ workers' = [workers EXCEPT
                         ![k].LastUpdated = "recent",
                         ![k].Nodes = IF target = <<>> THEN @
                                      ELSE WithChild(@, target[1], a.res)]
  /\ UNCHANGED << web, heap, robotLog, q, throttle, loopPc, closePc, closeSeen, crawl, fetches, enqs,
                  detectors, resp, nCrawls, nQueries >>

(***************************************************************************)
(* The quiescence detector.  Time is kept relative to LastUpdated: "zero"  *)
(* (never written), "recent" (LastUpdated + 15 s is after now) and "old".  *)
(***************************************************************************)
\* A detector whose condition holds at every tick.
DetectorFires_Always(worker) == TRUE

\* worker.LastUpdated.Add(delay).After(time.Now())
DetectorFires(worker) == worker.LastUpdated = "recent"

\* A tick of worker w's detector at which the condition holds.
Tick(w) ==
  /\ ~panicked
  /\ w \in detectors
  /\ DetectorFires(workers[w])
  /\ workers[w].status # StatusFetchingComplete
  /\ workers' = [workers EXCEPT ![w].status = StatusFetchingComplete]
  /\ UNCHANGED << web, heap, robotLog, q, throttle, loopPc, closePc, closeSeen, crawl, fetches, enqs,
                  appends, detectors, resp, nCrawls, nQueries, panicked >>

\* Fifteen seconds pass since worker w's LastUpdated.
Elapse(w) ==
  /\ ~panicked
  /\ w \in DOMAIN workers
  /\ workers[w].LastUpdated = "recent"
  /\ workers' = [workers EXCEPT ![w].LastUpdated = "old"]
  /\ UNCHANGED << web, heap, robotLog, q, throttle, loopPc, closePc, closeSeen, crawl, fetches, enqs,
                  appends, detectors, resp, nCrawls, nQueries, panicked >>

(***************************************************************************)
(* Close and the stop case of loop                                         *)
(***************************************************************************)
\* Close sends errc on c.stop and loop receives it: loop closes c.stop, sets
\* q.closed and closes q.ch.
CloseStop ==
  /\ ~panicked
  /\ ClientsClose(web)
  /\ closePc = "idle"
  /\ loopPc = "running"
  /\ q' = [q EXCEPT !.closed = TRUE, !.chClosed = TRUE]
  /\ loopPc' = "reply"
  /\ closePc' = "waiting"
  /\ UNCHANGED << web, heap, robotLog, workers, throttle, closeSeen, crawl, fetches, enqs, appends,
                  detectors, resp, nCrawls, nQueries, panicked >>

\* Close without the wait.
WaitReturns_Always(worker) == TRUE

\* WaitGroup.Wait returns.
WaitReturns(worker) == worker.wg = 0

\* worker.Wait() of Close's range over c.workers.
CloseWait(w) ==
  /\ ~panicked
  /\ closePc = "waiting"
  /\ w \in DOMAIN workers \ closeSeen
  /\ WaitReturns(workers[w])
  /\ closeSeen' = closeSeen \cup {w}
  /\ UNCHANGED << web, heap, robotLog, workers, q, throttle, loopPc, closePc, crawl, fetches, enqs,
                  appends, detectors, resp, nCrawls, nQueries, panicked >>

\* The range is over; Close receives loop's nil on errc and returns, and loop
\* returns.
CloseReturn ==
  /\ ~panicked
  /\ closePc = "waiting"
  /\ loopPc = "reply"
  /\ DOMAIN workers \subseteq closeSeen
  /\ closePc' = "returned"
  /\ loopPc' = "done"
  /\ UNCHANGED << web, heap, robotLog, workers, q, throttle, closeSeen, crawl, fetches, enqs, appends,
                  detectors, resp, nCrawls, nQueries, panicked >>

(***************************************************************************)
(* Specification                                                           *)
(***************************************************************************)
Next ==
  \/ \E in \in CrawlInputs(web) : CrawlBegin(in[1], in[2])
  \/ CrawlSeed
  \/ \E d \in QueryDomains(web) : GetDomainHandler(d)
  \/ \E d \in QueryDomains(web) : GetDomainStatusHandler(d)
  \/ LoopRecv
  \/ \E f \in fetches : FetchAcquire(f)
  \/ \E f \in fetches : FetchCheck(f)
  \/ \E f \in fetches : FetchStatus(f)
  \/ \E f \in fetches : FetchGet(f)
  \/ \E f \in fetches : FetchRelease(f)
  \/ \E f \in fetches : FetchDone(f)
  \/ \E e \in enqs : EnqCheck(e)
  \/ \E e \in enqs : EnqSend(e)
  \/ \E a \in appends : AppendCheck(a)
  \/ \E a \in appends : AppendSet(a)
  \/ \E a \in appends : AppendInsert(a)
  \/ \E w \in detectors : Tick(w)
  \/ \E w \in DOMAIN workers : Elapse(w)
  \/ CloseStop
  \/ \E w \in DOMAIN workers : CloseWait(w)
  \/ CloseReturn

Spec == Init /\ [][Next]_vars

(***************************************************************************)
(* The goroutines of the process are scheduled fairly: the loop, every     *)
(* fetch, child-enqueue and append goroutine, the detectors' tickers, the  *)
(* Crawl and Close calls in progress; and time passes.  The clients need   *)
(* not call.                                                               *)
(***************************************************************************)
Fairness ==
  /\ WF_vars(CrawlSeed)
  /\ WF_vars(LoopRecv)
  /\ WF_vars(\E f \in fetches : FetchAcquire(f))
  /\ WF_vars(\E f \in fetches : FetchCheck(f))
  /\ WF_vars(\E f \in fetches : FetchStatus(f))
  /\ WF_vars(\E f \in fetches : FetchGet(f))
  /\ WF_vars(\E f \in fetches : FetchRelease(f))
  /\ WF_vars(\E f \in fetches : FetchDone(f))
  /\ WF_vars(\E e \in enqs : EnqCheck(e))
  /\ WF_vars(\E e \in enqs : EnqSend(e))
  /\ WF_vars(\E a \in appends : AppendCheck(a))
  /\ WF_vars(\E a \in appends : AppendSet(a))
  /\ WF_vars(\E a \in appends : AppendInsert(a))
  /\ WF_vars(\E w \in detectors : Tick(w))
  /\ WF_vars(\E w \in DOMAIN workers : Elapse(w))
  /\ WF_vars(\E w \in DOMAIN workers : CloseWait(w))
  /\ WF_vars(CloseReturn)

FairSpec == Spec /\ Fairness

(***************************************************************************)
(* The fork site, crawled to depth 7, in the runs in which the append      *)
(* goroutines and the detector are not yet scheduled and no client queries *)
(* or closes: every step is a step of Next, so a state these runs reach is *)
(* a state the Crawler reaches on that site.                               *)
(***************************************************************************)
InitFork == web = "fork" /\ New

NextFork ==
  \/ \E in \in CrawlInputs(web) : CrawlBegin(in[1], in[2])
  \/ CrawlSeed
  \/ LoopRecv
  \/ \E f \in fetches : FetchAcquire(f)
  \/ \E f \in fetches : FetchCheck(f)
  \/ \E f \in fetches : FetchStatus(f)
  \/ \E f \in fetches : FetchGet(f)
  \/ \E f \in fetches : FetchRelease(f)
  \/ \E f \in fetches : FetchDone(f)
  \/ \E e \in enqs : EnqCheck(e)
  \/ \E e \in enqs : EnqSend(e)

SpecFork == InitFork /\ [][NextFork]_vars

(***************************************************************************)
(* Claims                                                                  *)
(***************************************************************************)
\* The Resources admitted to fetch (enqueue reached worker.Add and go fetch).
Admitted == { f.res : f \in fetches }

\* The fetch goroutines holding a throttle slot.
Holding == { f \in fetches : f.pc \in {"check", "status", "get", "release"} }

\* C1: no two Resources admitted for the same Worker have the same URL string.
C1_AdmittedOncePerURL ==
  \A r1 \in Admitted : \A r2 \in Admitted :
    (r1.root = r2.root /\ URLString(r1.url) = URLString(r2.url)) => r1 = r2

\* The page /i of the deep site links back to /a, which was admitted: the
\* link was sent, received by loop and dropped.
C1_Witness ==
  /\ web = "deep"
  /\ enqs = {} /\ q.ch = <<>>
  /\ \E f \in fetches : f.pc = "done" /\ URLString(f.res.url) = "http://a.com/i"
  /\ \E f \in fetches : URLString(f.res.url) = "http://a.com/a"

\* C2: every admitted Resource has 1 <= Depth <= crawlDepth of its Worker.
C2_DepthWithinBound ==
  \A r \in Admitted : 1 <= r.depth /\ r.depth <= workers[WorkerOf(r)].crawlDepth

\* A Worker of depth 1 whose seed was fetched and whose child /a was received
\* (it is in the tracker) and not admitted.
C2_Witness ==
  /\ "http://a.com" \in DOMAIN workers
  /\ workers["http://a.com"].crawlDepth = 1
  /\ "http://a.com/a" \in workers["http://a.com"].tracker
  /\ \E r \in Admitted : r.depth = 1

\* C3: every admitted Resource has the host of its Worker's seed.
C3_SameHostAsSeed ==
  \A r \in Admitted : r.url.host = workers[WorkerOf(r)].seed.host

\* C4: at most ThrottleCap fetch goroutines hold a throttle slot, and they
\* are the values buffered in the throttle channel.
C4_ThrottleBound ==
  /\ Cardinality(Holding) <= ThrottleCap
  /\ throttle = Cardinality(Holding)

\* The throttle is full and a fetch goroutine waits for a slot.
C4_Witness ==
  /\ Cardinality(Holding) = ThrottleCap
  /\ \E f \in fetches : f.pc = "acquire"

\* C5: once Close has returned every wait-group counter is zero and every
\* fetch goroutine has ended, in this and every later state; and from the
\* moment loop has handled the stop signal no Resource is admitted.
C5_ClosedMeansDrained ==
  /\ [] ( closePc = "returned" =>
            /\ \A w \in DOMAIN workers : workers[w].wg = 0
            /\ \A f \in fetches : f.pc = "done" )
  /\ [][ loopPc # "running" => Admitted' = Admitted ]_vars

\* Close has returned after fetches ran, with Resources left in the queue.
C5_Witness ==
  /\ closePc = "returned"
  /\ q.ch # <<>>
  /\ fetches # {}

\* C6: no admitted Resource has a path the Worker's robot group rejects.
C6_RobotsRespected ==
  \A r \in Admitted : AgentTest(workers[WorkerOf(r)].agent, r.url.path)

\* The disallowed /r was received by loop (it is in the tracker) after the
\* seed was admitted.
C6_Witness ==
  /\ web = "wide"
  /\ "http://a.com" \in DOMAIN workers
  /\ "http://a.com/r" \in workers["http://a.com"].tracker
  /\ Admitted # {}

\* C7: a Crawl for a URL whose string form is a registry key returns
\* ErrDomainAlreadyRegistered (400) and changes nothing.
C7_DuplicateCrawlRejected ==
  [][ ( /\ nCrawls' = nCrawls + 1
        /\ URLParse(resp'.arg).ok
        /\ URLString(URLParse(resp'.arg)) \in DOMAIN workers )
      => ( /\ resp'.err = "registered"
           /\ resp'.code = 400
           /\ workers' = workers
           /\ q' = q
           /\ detectors' = detectors
           /\ crawl' = crawl ) ]_vars

\* HTTP://a.com was refused because http://a.com is registered.
C7_Witness ==
  /\ resp.op = "crawl" /\ resp.err = "registered" /\ resp.arg = "HTTP://a.com"
  /\ "http://a.com" \in DOMAIN workers

\* C8: a Crawl that returns a parse, transport or robots.txt error is answered
\* 400 and leaves registry, detectors and queue as they were, with no Worker
\* under the URL's key.
C8_FailedCrawlChangesNothing ==
  [][ ( /\ nCrawls' = nCrawls + 1
        /\ resp'.err \in {"parse", "transport", "robots"} )
      => ( /\ resp'.code = 400
           /\ workers' = workers
           /\ q' = q
           /\ detectors' = detectors
           /\ crawl' = <<>>
           /\ URLParse(resp'.arg).ok =>
                /\ URLString(URLParse(resp'.arg)) \notin DOMAIN workers'
                /\ URLString(URLParse(resp'.arg)) \notin detectors' ) ]_vars

\* The seed htt://a.com was refused with the transport's error.
C8_Witness ==
  resp.op = "crawl" /\ resp.err = "transport" /\ resp.code = 400 /\ resp.arg = "htt://a.com"

\* C9: when Crawl has returned nil (202), a Worker is registered under the
\* string form of the parsed URL.
C9_AcceptedIsRegistered ==
  (resp.op = "crawl" /\ resp.code = 202) =>
    URLString(URLParse(resp.arg)) \in DOMAIN workers

\* C10: the tree query answers 404 exactly when no Worker is registered under
\* the key, 200 with the Worker's Tree exactly when its status is complete,
\* and 204 otherwise.
C10_TreeQueryCodes ==
  [][ ( /\ nQueries' = nQueries + 1
        /\ resp'.op = "tree" )
      => LET d == resp'.arg
             known == d \in DOMAIN workers
             complete == known /\ workers[d].status = StatusFetchingComplete
         IN /\ resp'.code = 404 <=> ~known
            /\ resp'.code = 200 <=> complete
            /\ resp'.code = 204 <=> (known /\ ~complete)
            /\ complete => resp'.body = workers[d].Tree ]_vars

\* A tree query answered 200 with the tree of a complete Worker.
C10_Witness ==
  resp.op = "tree" /\ resp.code = 200 /\ resp.body # <<>>

\* C11: a Crawl that registers a Worker called with depth 0 gives it the
\* crawlDepth DefaultMaxCrawlDepth, called with another depth d gives it d; no
\* step changes a registered crawlDepth; the status query reports it.
C11_EffectiveDepth ==
  [][ /\ ( nCrawls' = nCrawls + 1 /\ workers' # workers ) =>
           LET k == URLString(URLParse(resp'.arg)) IN
           /\ k \in DOMAIN workers'
           /\ workers'[k].crawlDepth =
                IF resp'.depth = 0 THEN DefaultMaxCrawlDepth ELSE resp'.depth
      /\ \A k \in DOMAIN workers :
           k \in DOMAIN workers' /\ workers'[k].crawlDepth = workers[k].crawlDepth
      /\ ( nQueries' = nQueries + 1 /\ resp'.op = "status" /\ resp'.code = 200 ) =>
           resp'.depth = workers[resp'.arg].crawlDepth ]_vars

\* The status query reports depth 5 for a Worker that is registered, which
\* in the small site happens only through Crawl("http://a.com", 0).
C11_Witness ==
  /\ web = "small"
  /\ resp.op = "status" /\ resp.code = 200 /\ resp.depth = DefaultMaxCrawlDepth
  /\ resp.arg \in DOMAIN workers

\* The Resources of a run: on the queue, built by a child-enqueue goroutine,
\* admitted, handed to append, and in the trees.
Resources ==
  { q.ch[i] : i \in 1..Len(q.ch) }
    \cup { Child(e.parent, e.absolute) : e \in { x \in enqs : x.pc = "send" } }
    \cup Admitted
    \cup { a.res : a \in appends }
    \cup UNION { { workers[k].Tree[i] : i \in 1..Len(workers[k].Tree) } : k \in DOMAIN workers }
    \cup UNION { UNION { { workers[k].Nodes[n][i] : i \in 1..Len(workers[k].Nodes[n]) } :
                          n \in DOMAIN workers[k].Nodes } : k \in DOMAIN workers }

\* The URLs fetch enqueues for the page of the Resource p.
LinksOf(p) ==
  { normaliseURL(h, p.url) : h \in PageLinks(web, URLString(p.url)) } \ {NoURL}

\* C12: every Resource has Depth - 1 strings in Parent; one of Depth 1 is the
\* seed; any other was enqueued by the fetch of an admitted p that links to
\* it, with p's Root, p's Depth + 1 and p's Parent followed by p's URL string.
C12_ChildAncestry ==
  \A r \in Resources :
    /\ r.parent.len = r.depth - 1
    /\ r.depth = 1 => r.url = r.root
    /\ r.depth # 1 =>
         \E p \in Admitted :
           /\ r.url \in LinksOf(p)
           /\ r.root = p.root
           /\ r.depth = p.depth + 1
           /\ ParentOf(r) = Append(ParentOf(p), URLString(p.url))

\* The place of a status on the path initialised -> in-progress -> complete.
StatusRank(status) ==
  CASE status = StatusInitialised -> 0
    [] status = StatusFetchingInProgress -> 1
    [] status = StatusFetchingComplete -> 2
    [] OTHER -> 3

\* C13: no step moves a Worker's status backwards: not from complete to
\* in-progress or initialised, not from in-progress to initialised.
C13_StatusMonotone ==
  [][ \A k \in DOMAIN workers :
        StatusRank(workers'[k].status) >= StatusRank(workers[k].status) ]_vars

\* The registry keys of the runs.
Keys == { "http://a.com", "http://b.com" }

\* The crawl of Worker k is idle: its seed was sent and admitted, the queue
\* holds none of its Resources and none of its fetch, child-enqueue and append
\* goroutines is left.
Idle(k) ==
  /\ ~panicked
  /\ k \in DOMAIN workers
  /\ crawl = <<>>
  /\ \E f \in fetches : WorkerOf(f.res) = k
  /\ \A i \in 1..Len(q.ch) : WorkerOf(q.ch[i]) # k
  /\ \A f \in fetches : WorkerOf(f.res) = k => f.pc = "done"
  /\ \A e \in enqs : WorkerOf(e.parent) # k
  /\ \A a \in appends : WorkerOf(a.res) # k

\* C14: a Worker whose crawl is idle eventually has the status complete,
\* unless the Crawler is closed or the process panics first.
C14_IdleLeadsToComplete ==
  \A k \in Keys :
    (Idle(k) /\ closePc = "idle")
      ~> ( \/ (k \in DOMAIN workers /\ workers[k].status = StatusFetchingComplete)
           \/ closePc # "idle"
           \/ panicked )

\* C15: every step keeps every registry key, with the same Worker: its seed,
\* crawlDepth and robots group are unchanged and its tracker loses nothing.
C15_RegistryOnlyGrows ==
  [][ \A k \in DOMAIN workers :
        /\ k \in DOMAIN workers'
        /\ workers'[k].seed = workers[k].seed
        /\ workers'[k].crawlDepth = workers[k].crawlDepth
        /\ workers'[k].agent = workers[k].agent
        /\ workers[k].tracker \subseteq workers'[k].tracker ]_vars

\* A second Worker is registered while the first has admitted its seed, and
\* Close has returned.
C15_Witness ==
  /\ Cardinality(DOMAIN workers) = 2
  /\ \A k \in DOMAIN workers : workers[k].tracker # {}
  /\ closePc = "returned"

\* C16: a step that sets a Worker's status to complete is taken when that
\* Worker had no insertion in the last 15 seconds (LastUpdated is not recent).
C16_CompleteOnlyAfterIdleWindow ==
  [][ \A k \in DOMAIN workers :
        ( workers'[k].status = StatusFetchingComplete
          /\ workers[k].status # StatusFetchingComplete )
        => workers[k].LastUpdated # "recent" ]_vars

\* C17: a step leaves a Worker's Tree null or the Depth-1 seed Resource, and
\* never assigns a Tree that is set.
C17_TreeSetOnceBySeed ==
  [][ \A k \in DOMAIN workers :
        /\ workers'[k].Tree # <<>> =>
             /\ workers'[k].Tree[1].depth = 1
             /\ workers'[k].Tree[1].url = workers[k].seed
        /\ workers[k].Tree # <<>> => workers'[k].Tree = workers[k].Tree ]_vars

\* C18: a step that inserts into a Worker's tree (as the root or in some
\* Nodes) leaves LastUpdated at the current time, and LastUpdated is brought
\* to the current time by no other step.
C18_LastUpdatedOnInsertion ==
  [][ \A k \in DOMAIN workers :
        LET inserted == \/ workers'[k].Tree # workers[k].Tree
                        \/ workers'[k].Nodes # workers[k].Nodes
        IN /\ inserted => workers'[k].LastUpdated = "recent"
           /\ ( workers'[k].LastUpdated = "recent"
                /\ workers[k].LastUpdated # "recent" ) => inserted ]_vars

\* The Resources of Worker w's tree: those reached from w.Tree through Nodes,
\* starting from the set S.
RECURSIVE Reached(_, _)
Reached(w, S) ==
  LET T == S \cup UNION { { w.Nodes[x][i] : i \in 1..Len(w.Nodes[x]) } :
                            x \in S \cap DOMAIN w.Nodes }
  IN IF T = S THEN S ELSE Reached(w, T)

TreeNodes(w) == Reached(w, { w.Tree[i] : i \in 1..Len(w.Tree) })

\* The URL strings on the path from the root of w's tree down to its node x.
RECURSIVE TreePath(_, _)
TreePath(w, x) ==
  IF << x >> = w.Tree THEN << URLString(x.url) >>
  ELSE LET y == CHOOSE y \in TreeNodes(w) \cap DOMAIN w.Nodes :
                  \E i \in 1..Len(w.Nodes[y]) : w.Nodes[y][i] = x
       IN Append(TreePath(w, y), URLString(x.url))

\* Every Resource n in the Nodes of a tree node x has x's URL string as the
\* last string of its Parent, and its Parent spells the path from the root
\* to x.
TreePlacement ==
  \A k \in DOMAIN workers :
    \A x \in TreeNodes(workers[k]) \cap DOMAIN workers[k].Nodes :
      \A i \in 1..Len(workers[k].Nodes[x]) :
        LET n == workers[k].Nodes[x][i] IN
        /\ n.parent.len >= 1
        /\ ParentOf(n)[n.parent.len] = URLString(x.url)
        /\ ParentOf(n) = TreePath(workers[k], x)

\* C19: after every step the Resources of the trees are placed by their
\* Parent, and a step changes a Nodes list only by appending to it.
C19_TreePlacementAndOrder ==
  [][ /\ TreePlacement'
      /\ \A k \in DOMAIN workers :
           \A x \in DOMAIN workers[k].Nodes :
             /\ x \in DOMAIN workers'[k].Nodes
             /\ Len(workers'[k].Nodes[x]) >= Len(workers[k].Nodes[x])
             /\ SubSeq(workers'[k].Nodes[x], 1, Len(workers[k].Nodes[x]))
                  = workers[k].Nodes[x] ]_vars

\* C20: no send on the queue is performed once the loop has closed the
\* channel: neither Crawl's send of the seed nor the send of a child-enqueue
\* goroutine has panicked.
C20_NoSendOnClosedQueue ==
  /\ resp.err # "panic"
  /\ \A e \in enqs : e.pc # "panic"

\* C21: when the loop takes a Resource of a registered Worker off the open
\* queue, a URL string found in the tracker changes nothing and logs nothing;
\* a URL the robot gate refuses (it is logged) was not in the tracker, is in
\* it afterwards, and spawns no fetch; so no URL string is logged twice.
C21_TrackerBeforeRobotGate ==
  [][ ( q.ch # <<>> /\ q'.ch = Tail(q.ch) ) =>
        LET res == Head(q.ch)
            k == URLString(res.root)
            uri == URLString(res.url)
        IN ( ~q.closed /\ res.url.ok /\ k \in DOMAIN workers ) =>
             /\ uri \in workers[k].tracker =>
                  ( workers' = workers /\ fetches' = fetches /\ robotLog' = robotLog )
             /\ robotLog' # robotLog =>
                  /\ robotLog' = Append(robotLog, uri)
                  /\ ~AgentTest(workers[k].agent, res.url.path)
                  /\ uri \notin workers[k].tracker
                  /\ uri \in workers'[k].tracker
                  /\ fetches' = fetches
                  /\ \A i \in 1..Len(robotLog) : robotLog[i] # uri ]_vars

\* /r was refused and logged, and its second discovery, through /c, was
\* taken off the queue too.
C21_Witness ==
  /\ web = "again"
  /\ robotLog = << "http://a.com/r" >>
  /\ enqs = {} /\ q.ch = <<>>
  /\ \E f \in fetches : f.pc = "done" /\ URLString(f.res.url) = "http://a.com/c"
  /\ \E f \in fetches : f.pc = "done" /\ URLString(f.res.url) = "http://a.com"

\* The URL strings of the Resources admitted for Worker k.
AdmittedURLs(k) == { URLString(r.url) : r \in { x \in Admitted : WorkerOf(x) = k } }

\* C22 as claimed: a Worker's tracker is the set of the URL strings admitted
\* for it.
C22_TrackerIsAdmitted ==
  \A k \in DOMAIN workers : workers[k].tracker = AdmittedURLs(k)

\* C22 as amended: the tracker holds the URL string of every Resource the
\* loop took off the open queue for the Worker, admitted or dropped by the
\* depth gate or the robot gate: it contains the admitted URL strings, only
\* such a step changes it, by adding that URL string, and a Resource is
\* admitted only if its URL string was not in the tracker.
C22_TrackerIsEverySeenURL ==
  [][ /\ \A k \in DOMAIN workers' : AdmittedURLs(k)' \subseteq workers'[k].tracker
      /\ \A k \in DOMAIN workers :
           LET taken == /\ q.ch # <<>> /\ q'.ch = Tail(q.ch)
                        /\ ~q.closed /\ Head(q.ch).url.ok
                        /\ WorkerOf(Head(q.ch)) = k
           IN /\ taken => workers'[k].tracker
                            = workers[k].tracker \cup { URLString(Head(q.ch).url) }
              /\ ~taken => workers'[k].tracker = workers[k].tracker
      /\ \A r \in Admitted' \ Admitted :
           URLString(r.url) \notin workers[WorkerOf(r)].tracker ]_vars

\* /i was first taken off the queue at Depth 3, above crawlDepth 2, and
\* recorded; its discovery at Depth 2 was taken off the queue afterwards and
\* /i was never admitted.
C22_Witness ==
  /\ web = "late"
  /\ enqs = {} /\ q.ch = <<>>
  /\ "http://a.com" \in DOMAIN workers
  /\ "http://a.com/i" \in workers["http://a.com"].tracker
  /\ "http://a.com/i" \notin AdmittedURLs("http://a.com")
  /\ \A f \in fetches : f.pc = "done"

\* C23: a Close that has handed its stop signal to the loop eventually
\* returns: the loop's reply is delivered once every Worker's wait-group has
\* drained.
C23_CloseReturns == (closePc = "waiting") ~> (closePc = "returned")

\* C24: a fetch goroutine that reads the closed flag set, at its check after
\* the throttle slot, goes to its deferred calls having made no request, and
\* in each of its later steps makes none, leaves the Worker's status and tree
\* as they are and spawns no append and no child-enqueue goroutine; and a
\* child-enqueue goroutine that reads the flag set ends with the queue as it
\* was.
C24_ClosedStopsFetch ==
  [][ /\ \A f \in fetches :
           ( f \notin fetches'
             /\ \/ (f.pc = "check" /\ q.closed)
                \/ (f.pc \in {"release", "wgdone"} /\ f.sent = <<>>) ) =>
             /\ \E g \in fetches' :
                  /\ g.res = f.res /\ g.sent = <<>>
                  /\ g.pc \in {"release", "wgdone", "done"}
                  /\ fetches' = (fetches \ {f}) \cup {g}
             /\ appends' = appends
             /\ enqs' = enqs
             /\ q' = q
             /\ \A k \in DOMAIN workers :
                  /\ workers'[k].status = workers[k].status
                  /\ workers'[k].Tree = workers[k].Tree
                  /\ workers'[k].Nodes = workers[k].Nodes
      /\ \A f \in fetches' :
           f.sent = <<>> =>
             /\ \A a \in appends' : a.res # f.res
             /\ f.res \notin TreeNodes(workers'[WorkerOf(f.res)])
      /\ \A e \in enqs :
           (e.pc = "check" /\ q.closed /\ e \notin enqs') =>
             (enqs' = enqs \ {e} /\ q' = q /\ ~panicked') ]_vars

\* Close came while the seed's page was being fetched: the fetch of one
\* Resource has ended without a request, and the child-enqueue goroutine for
\* the link /a has ended without a send.
C24_Witness ==
  /\ q.closed /\ ~panicked /\ enqs = {} /\ q.ch = <<>>
  /\ "http://a.com" \in DOMAIN workers
  /\ "http://a.com/a" \notin workers["http://a.com"].tracker
  /\ \E f \in fetches : /\ URLString(f.res.url) = "http://a.com"
                        /\ f.pc = "done" /\ f.sent = << "HEAD", "GET" >>
  /\ \E f \in fetches : f.pc = "done" /\ f.sent = <<>>

\* The fetch goroutines of Worker k that have not ended.
Live(k) == { f \in fetches : WorkerOf(f.res) = k /\ f.pc # "done" }

\* C25: the throttle holds one value for each fetch goroutine between its
\* send and its deferred receive, a Worker's wait-group counter is the number
\* of its fetch goroutines that have not ended and is never negative, and
\* with no fetch goroutine left both are zero; a fetch goroutine, whatever
\* requests it made, ends by one receive from the throttle and then one Done,
\* no other step of it takes a value from the throttle or lowers a counter,
\* and an ended fetch takes no further step.
C25_SlotAndDoneOncePerFetch ==
  [][ /\ throttle' = Cardinality({ f \in fetches' :
                                     f.pc \in {"check", "status", "get", "release"} })
      /\ \A k \in DOMAIN workers' :
           /\ workers'[k].wg = Cardinality(Live(k)')
           /\ workers'[k].wg >= 0
      /\ (\A f \in fetches' : f.pc = "done") =>
           (throttle' = 0 /\ \A k \in DOMAIN workers' : workers'[k].wg = 0)
      /\ \A f \in fetches :
           LET k == WorkerOf(f.res) IN
           IF f \in fetches'
           THEN TRUE
           ELSE /\ f.pc # "done"
                /\ \E g \in fetches' :
                     /\ g.res = f.res
                     /\ fetches' = (fetches \ {f}) \cup {g}
                     /\ g.pc = "release" => f.pc \in {"check", "get"}
                     /\ g.pc = "wgdone" <=> f.pc = "release"
                     /\ g.pc = "done" <=> f.pc = "wgdone"
                /\ throttle' = throttle + ( IF f.pc = "acquire" THEN 1
                                            ELSE IF f.pc = "release" THEN -1 ELSE 0 )
                /\ workers'[k].wg = workers[k].wg - (IF f.pc = "wgdone" THEN 1 ELSE 0)
                /\ \A j \in DOMAIN workers \ {k} : workers'[j].wg = workers[j].wg ]_vars

\* Every fetch goroutine has ended, one without a request (the queue was
\* closed), one after its HEAD and one after its GET; the throttle is empty
\* and the counters are zero.
C25_Witness ==
  /\ fetches # {}
  /\ \A f \in fetches : f.pc = "done"
  /\ \E f \in fetches : f.sent = <<>>
  /\ \E f \in fetches : f.sent = << "HEAD" >>
  /\ \E f \in fetches : f.sent = << "HEAD", "GET" >>
  /\ throttle = 0
  /\ \A k \in DOMAIN workers : workers[k].wg = 0

\* C26: no Worker has the status error; and the step in which a HEAD or a
\* GET of a fetch fails or finds no HTML, the step in which the robot gate
\* refuses a URL and the loop's handling of Close's stop signal leave every
\* Worker's status as it was.
C26_NoErrorStatus ==
  [][ /\ \A k \in DOMAIN workers' : workers'[k].status # StatusFetchingError
      /\ ( \/ \E f \in fetches : \E g \in fetches' \ fetches :
                /\ g.res = f.res /\ g.pc = "release"
                /\ \/ f.pc = "check" /\ g.sent = << "HEAD" >>
                   \/ f.pc = "get" /\ PageGet(web, URLString(f.res.url)) # "ok"
           \/ robotLog' # robotLog
           \/ q.closed # q'.closed )
         => \A k \in DOMAIN workers : workers'[k].status = workers[k].status ]_vars

\* A refused URL was logged, one fetch has ended after a HEAD that found no
\* HTML and one after a HEAD that failed, and Close has returned: the Worker
\* is in progress.
C26_Witness ==
  /\ closePc = "returned"
  /\ robotLog # <<>>
  /\ \E f \in fetches : /\ f.pc = "done" /\ f.sent = << "HEAD" >>
                        /\ PageHead(web, URLString(f.res.url)) = "other"
  /\ \E f \in fetches : /\ f.pc = "done" /\ f.sent = << "HEAD" >>
                        /\ PageHead(web, URLString(f.res.url)) = "err"
  /\ \A k \in DOMAIN workers : workers[k].status = StatusFetchingInProgress

\* C27: every registered Worker has a crawlDepth of at least 1.
C27_PositiveCrawlDepth ==
  \A k \in DOMAIN workers : workers[k].crawlDepth >= 1

\* C28: a Worker with the status complete has a Tree and a LastUpdated that
\* was written, and a tree query answered 200 carries a root.
C28_CompleteHasTree ==
  /\ \A k \in DOMAIN workers :
       workers[k].status = StatusFetchingComplete =>
         (workers[k].Tree # <<>> /\ workers[k].LastUpdated # "zero")
  /\ (resp.op = "tree" /\ resp.code = 200) => resp.body # <<>>

\* A tree query was answered 200 for a Worker that is complete.
C28_Witness ==
  /\ resp.op = "tree" /\ resp.code = 200
  /\ resp.arg \in DOMAIN workers
  /\ workers[resp.arg].status = StatusFetchingComplete
  /\ resp.body = workers[resp.arg].Tree

\* The places of Worker w's tree: the root (under no Resource), and each
\* index of the Nodes of a Resource of the tree.
TreePlaces(w) ==
  { << <<>>, i >> : i \in 1..Len(w.Tree) }
    \cup UNION { { << << x >>, i >> : i \in 1..Len(w.Nodes[x]) } :
                   x \in TreeNodes(w) \cap DOMAIN w.Nodes }

\* The Resource at a place of Worker w's tree.
TreeAt(w, p) == IF p[1] = <<>> THEN w.Tree[p[2]] ELSE w.Nodes[p[1][1]][p[2]]

\* C29: no two places of a Worker's tree hold the same URL string, and the
\* Resource at every place was admitted for that Worker: a fetch was spawned
\* for it, its URL string is in the tracker, its Root is the Worker's seed
\* and its Depth is from 1 to crawlDepth.
C29_TreeNodesUniqueAndAdmitted ==
  \A k \in DOMAIN workers :
    LET w == workers[k] IN
    /\ \A p1 \in TreePlaces(w) : \A p2 \in TreePlaces(w) :
         URLString(TreeAt(w, p1).url) = URLString(TreeAt(w, p2).url) => p1 = p2
    /\ \A p \in TreePlaces(w) :
         LET r == TreeAt(w, p) IN
         /\ r \in Admitted
         /\ WorkerOf(r) = k
         /\ r.root = w.seed
         /\ URLString(r.url) \in w.tracker
         /\ r.depth >= 1
         /\ r.depth <= w.crawlDepth

\* The crawl of the deep site has ended with four Resources in the tree; the
\* link from the last page back to /a was found in the tracker and dropped.
C29_Witness ==
  /\ web = "deep"
  /\ "http://a.com" \in DOMAIN workers
  /\ Cardinality(TreePlaces(workers["http://a.com"])) = 4
  /\ enqs = {} /\ appends = {} /\ q.ch = <<>>
  /\ \A f \in fetches : f.pc = "done"

====
